---- MODULE Spec2Model ----
(***************************************************************************)
(* The invoice text extractor of function_app.py (extract_structured_data  *)
(* and its helpers) and the HTTP handlers around it, as state machines.    *)
(*                                                                         *)
(* A Python str is a sequence of one-character strings, so that strip,     *)
(* split, replace, lower, isdigit, startswith and the substring test `in`  *)
(* are computed character by character as Python computes them.  The       *)
(* alphabet is ASCII.  Sequences are 1-based: Python's lines[i] is         *)
(* lines[i + 1] here, and Python's `i + 1 < len(lines)` is `i < Len(lines)`*)
(***************************************************************************)
EXTENDS Integers, Sequences, FiniteSets, TLC

(***************************************************************************)
(* str methods                                                             *)
(***************************************************************************)

\* the characters str.strip() removes
Whitespace == {" ", "\t", "\r", "\n"}

\* the characters for which str.isdigit() is true
DigitChars == {"0", "1", "2", "3", "4", "5", "6", "7", "8", "9"}

UpperChars == <<"A", "B", "C", "D", "E", "F", "G", "H", "I", "J", "K", "L", "M",
    "N", "O", "P", "Q", "R", "S", "T", "U", "V", "W", "X", "Y", "Z">>

LowerChars == <<"a", "b", "c", "d", "e", "f", "g", "h", "i", "j", "k", "l", "m",
    "n", "o", "p", "q", "r", "s", "t", "u", "v", "w", "x", "y", "z">>

RECURSIVE LStrip(_)
LStrip(s) == IF s # <<>> /\ Head(s) \in Whitespace THEN LStrip(Tail(s)) ELSE s

RECURSIVE RStrip(_)
RStrip(s) ==
    IF s # <<>> /\ s[Len(s)] \in Whitespace THEN RStrip(SubSeq(s, 1, Len(s) - 1)) ELSE s

\* s.strip()
Strip(s) == RStrip(LStrip(s))

\* s.find(m) + 1: the position of the first occurrence of m in s, 0 when there is none
Find(s, m) ==
    LET hits == {k \in 1..(Len(s) - Len(m) + 1) : SubSeq(s, k, k + Len(m) - 1) = m}
    IN IF hits = {} THEN 0 ELSE CHOOSE k \in hits : \A j \in hits : k <= j

\* m in s
Contains(s, m) == Find(s, m) # 0

\* s.startswith(p)
StartsWith(s, p) == Len(p) <= Len(s) /\ SubSeq(s, 1, Len(p)) = p

\* s.split(m, 1)[0]
BeforeFirst(s, m) == IF Find(s, m) = 0 THEN s ELSE SubSeq(s, 1, Find(s, m) - 1)

\* s.split(m, 1)[1], for a string that contains m
AfterFirst(s, m) == SubSeq(s, Find(s, m) + Len(m), Len(s))

\* s.split(m)[-1]: what follows the last occurrence split() finds, scanning from the left
RECURSIVE SplitLast(_, _)
SplitLast(s, m) == IF Find(s, m) = 0 THEN s ELSE SplitLast(AfterFirst(s, m), m)

\* s.split(c): the pieces of s between the occurrences of the one-character string c
RECURSIVE Split(_, _)
Split(s, c) ==
    IF Find(s, c) = 0 THEN <<s>> ELSE <<BeforeFirst(s, c)>> \o Split(AfterFirst(s, c), c)

\* s.replace(c, "") for a character c
Remove(s, c) == SelectSeq(s, LAMBDA x : x # c[1])

\* s.isdigit()
IsDigit(s) == s # <<>> /\ \A k \in 1..Len(s) : s[k] \in DigitChars

\* any(char.isdigit() for char in s)
AnyDigit(s) == \E k \in 1..Len(s) : s[k] \in DigitChars

\* s.lower()
Lower(s) ==
    [k \in 1..Len(s) |->
        IF \E u \in 1..26 : UpperChars[u] = s[k]
        THEN LowerChars[CHOOSE u \in 1..26 : UpperChars[u] = s[k]]
        ELSE s[k]]

\* sep.join(parts)
RECURSIVE Join(_, _)
Join(parts, sep) ==
    IF parts = <<>> THEN <<>>
    ELSE IF Len(parts) = 1 THEN parts[1]
    ELSE parts[1] \o sep \o Join(Tail(parts), sep)

\* parts[-n:]
LastN(parts, n) == SubSeq(parts, IF Len(parts) > n THEN Len(parts) - n + 1 ELSE 1, Len(parts))

\* the characters of s
Range(s) == {s[k] : k \in 1..Len(s)}

\* Python's None, which is no str
None == <<"None">>

\* the truth value of an optional str: None and "" are false
Truthy(v) == v # None /\ v # <<>>

\* the empty dict
EmptyDict == [k \in {} |-> <<>>]

(***************************************************************************)
(* The literals of function_app.py                                         *)
(***************************************************************************)

SP == <<" ">>

COLON == <<":">>

PERCENT == <<"%">>

NL == <<"\n">>

\* 'VAT No.'
M_VAT_NO == <<"V", "A", "T", " ", "N", "o", ".">>
\* 'Address Where Meter Installed:'
M_ADDRESS_WHERE == <<"A", "d", "d", "r", "e", "s", "s", " ", "W", "h", "e", "r", "e", " ", "M",
    "e", "t", "e", "r", " ", "I", "n", "s", "t", "a", "l", "l", "e", "d", ":">>
\* 'Bill Payer Address'
M_BILL_PAYER == <<"B", "i", "l", "l", " ", "P", "a", "y", "e", "r", " ", "A", "d", "d", "r",
    "e", "s", "s">>
\* 'Invoice Number'
M_INVOICE_NUMBER == <<"I", "n", "v", "o", "i", "c", "e", " ", "N", "u", "m", "b", "e", "r">>
\* 'Meter Serial Numbers'
M_METER_SERIALS == <<"M", "e", "t", "e", "r", " ", "S", "e", "r", "i", "a", "l", " ", "N", "u",
    "m", "b", "e", "r", "s">>
\* 'Invoice Number:'
M_INVOICE_NUMBER_C == <<"I", "n", "v", "o", "i", "c", "e", " ", "N", "u", "m", "b", "e", "r",
    ":">>
\* 'Invoice Date:'
M_INVOICE_DATE_C == <<"I", "n", "v", "o", "i", "c", "e", " ", "D", "a", "t", "e", ":">>
\* 'Payment Due Date:'
M_PAYMENT_DUE_C == <<"P", "a", "y", "m", "e", "n", "t", " ", "D", "u", "e", " ", "D", "a", "t",
    "e", ":">>
\* 'generation'
M_GENERATION == <<"g", "e", "n", "e", "r", "a", "t", "i", "o", "n">>
\* 'export'
M_EXPORT == <<"e", "x", "p", "o", "r", "t">>
\* 'Billing Period'
M_BILLING_PERIOD == <<"B", "i", "l", "l", "i", "n", "g", " ", "P", "e", "r", "i", "o", "d">>
\* 'Cost per kWh'
M_COST_PER_KWH == <<"C", "o", "s", "t", " ", "p", "e", "r", " ", "k", "W", "h">>
\* 'Total Consumption'
M_TOTAL_CONSUMPTION == <<"T", "o", "t", "a", "l", " ", "C", "o", "n", "s", "u", "m", "p", "t",
    "i", "o", "n">>
\* 'Net Cost'
M_NET_COST == <<"N", "e", "t", " ", "C", "o", "s", "t">>
\* 'VAT @'
M_VAT_AT == <<"V", "A", "T", " ", "@">>
\* 'Total Amount Due'
M_TOTAL_AMOUNT_DUE == <<"T", "o", "t", "a", "l", " ", "A", "m", "o", "u", "n", "t", " ", "D",
    "u", "e">>
\* 'Account Name'
M_ACCOUNT_NAME == <<"A", "c", "c", "o", "u", "n", "t", " ", "N", "a", "m", "e">>
\* 'Bank Sort Code'
M_BANK_SORT_CODE == <<"B", "a", "n", "k", " ", "S", "o", "r", "t", " ", "C", "o", "d", "e">>
\* 'Account Number'
M_ACCOUNT_NUMBER == <<"A", "c", "c", "o", "u", "n", "t", " ", "N", "u", "m", "b", "e", "r">>
\* the month abbreviations of the date handling
Months ==
    {<<"J", "a", "n">>,
     <<"F", "e", "b">>,
     <<"M", "a", "r">>,
     <<"A", "p", "r">>,
     <<"M", "a", "y">>,
     <<"J", "u", "n">>,
     <<"J", "u", "l">>,
     <<"A", "u", "g">>,
     <<"S", "e", "p">>,
     <<"O", "c", "t">>,
     <<"N", "o", "v">>,
     <<"D", "e", "c">>}

(***************************************************************************)
(* Inputs: the text of test_extract_structured_data and texts in the       *)
(* layout the scanners expect (a marker line, its value on the next line)  *)
(***************************************************************************)

\* 'Company Name'
V_COMPANY_NAME == <<"C", "o", "m", "p", "a", "n", "y", " ", "N", "a", "m", "e">>

\* '123 Business Street'
V_BUSINESS_STREET == <<"1", "2", "3", " ", "B", "u", "s", "i", "n", "e", "s", "s", " ", "S",
    "t", "r", "e", "e", "t">>

\* 'City, Country'
V_CITY_COUNTRY == <<"C", "i", "t", "y", ",", " ", "C", "o", "u", "n", "t", "r", "y">>

\* ': 123456789'
V_VAT_VALUE == <<":", " ", "1", "2", "3", "4", "5", "6", "7", "8", "9">>

\* '123456789'
V_123456789 == <<"1", "2", "3", "4", "5", "6", "7", "8", "9">>

\* '456 Customer Street'
V_CUSTOMER_STREET == <<"4", "5", "6", " ", "C", "u", "s", "t", "o", "m", "e", "r", " ", "S",
    "t", "r", "e", "e", "t">>

\* 'Customer City'
V_CUSTOMER_CITY == <<"C", "u", "s", "t", "o", "m", "e", "r", " ", "C", "i", "t", "y">>

\* 'INV123'
V_INV123 == <<"I", "N", "V", "1", "2", "3">>

\* '2024-03-20'
V_2024_03_20 == <<"2", "0", "2", "4", "-", "0", "3", "-", "2", "0">>

\* '2024-04-20'
V_2024_04_20 == <<"2", "0", "2", "4", "-", "0", "4", "-", "2", "0">>

\* '2024-02-20'
V_2024_02_20 == <<"2", "0", "2", "4", "-", "0", "2", "-", "2", "0">>

\* '12345'
V_12345 == <<"1", "2", "3", "4", "5">>

\* 'Generation'
V_GENERATION == <<"G", "e", "n", "e", "r", "a", "t", "i", "o", "n">>

\* '1000'
V_1000 == <<"1", "0", "0", "0">>

\* '2000'
V_2000 == <<"2", "0", "0", "0">>

\* 'Feb 2024'
V_FEB_2024 == <<"F", "e", "b", " ", "2", "0", "2", "4">>

\* '0.15'
V_0_15 == <<"0", ".", "1", "5">>

\* '150.00'
V_150_00 == <<"1", "5", "0", ".", "0", "0">>

\* ' 20'
V_20 == <<" ", "2", "0">>

\* '180.00'
V_180_00 == <<"1", "8", "0", ".", "0", "0">>

\* 'Test Account'
V_TEST_ACCOUNT == <<"T", "e", "s", "t", " ", "A", "c", "c", "o", "u", "n", "t">>

\* '12-34-56'
V_12_34_56 == <<"1", "2", "-", "3", "4", "-", "5", "6">>

\* '12345678'
V_12345678 == <<"1", "2", "3", "4", "5", "6", "7", "8">>

\* 'Head Office'
V_HEAD_OFFICE == <<"H", "e", "a", "d", " ", "O", "f", "f", "i", "c", "e">>

\* '1 Main Rd'
V_MAIN_RD == <<"1", " ", "M", "a", "i", "n", " ", "R", "d">>

\* ' :GB1:2'
V_GB_COLONS == <<" ", ":", "G", "B", "1", ":", "2">>

\* '9 Elm St'
V_ELM_ST == <<"9", " ", "E", "l", "m", " ", "S", "t">>

\* 'PO Box 1'
V_PO_BOX == <<"P", "O", " ", "B", "o", "x", " ", "1">>

\* 'INV9'
V_INV9 == <<"I", "N", "V", "9">>

\* '01 Mar 2024'
V_01_MAR == <<"0", "1", " ", "M", "a", "r", " ", "2", "0", "2", "4">>

\* '777'
V_777 == <<"7", "7", "7">>

\* 'Import'
V_IMPORT == <<"I", "m", "p", "o", "r", "t">>

\* '5'
V_5 == <<"5">>

\* '6'
V_6 == <<"6">>

\* '01 Jan 2024'
V_01_JAN == <<"0", "1", " ", "J", "a", "n", " ", "2", "0", "2", "4">>

\* '01 Feb 2024'
V_01_FEB == <<"0", "1", " ", "F", "e", "b", " ", "2", "0", "2", "4">>

\* '42'
V_42 == <<"4", "2">>

\* 'EXPORT'
V_EXPORT_UPPER == <<"E", "X", "P", "O", "R", "T">>

\* '10'
V_10 == <<"1", "0">>

\* '20 05 Feb 2024'
V_20_05_FEB == <<"2", "0", " ", "0", "5", " ", "F", "e", "b", " ", "2", "0", "2", "4">>

\* 'Total'
V_TOTAL == <<"T", "o", "t", "a", "l">>

\* '34'
V_34 == <<"3", "4">>

\* 'N/A'
V_NA == <<"N", "/", "A">>

\* ' of Net'
V_OF_NET == <<" ", "o", "f", " ", "N", "e", "t">>

\* '        '
V_INDENT == <<" ", " ", " ", " ", " ", " ", " ", " ">>

\* '  \n\t \n'
V_WHITESPACE_ONLY == <<" ", " ", "\n", "\t", " ", "\n">>

\* 'internal fault'
E_FAULT == <<"i", "n", "t", "e", "r", "n", "a", "l", " ", "f", "a", "u", "l", "t">>

\* the blocks of the test input of test_extract_structured_data
TestHeader ==
    <<V_COMPANY_NAME, V_BUSINESS_STREET, V_CITY_COUNTRY, M_VAT_NO \o V_VAT_VALUE>>

TestCustomer == <<M_ADDRESS_WHERE, V_CUSTOMER_STREET, V_CUSTOMER_CITY>>

TestInvoice ==
    <<M_INVOICE_NUMBER_C \o SP \o V_INV123,
      M_INVOICE_DATE_C \o SP \o V_2024_03_20,
      M_PAYMENT_DUE_C \o SP \o V_2024_04_20>>

TestMeter == <<V_12345, V_GENERATION, V_1000, V_2024_02_20, V_2000, V_2024_03_20>>

TestBilling ==
    <<M_BILLING_PERIOD \o COLON \o SP \o V_FEB_2024,
      M_COST_PER_KWH \o COLON \o SP \o V_0_15,
      M_TOTAL_CONSUMPTION \o COLON \o SP \o V_1000,
      M_NET_COST \o COLON \o SP \o V_150_00,
      M_VAT_AT \o V_20 \o PERCENT,
      M_TOTAL_AMOUNT_DUE \o COLON \o SP \o V_180_00>>

TestPayment ==
    <<M_ACCOUNT_NAME \o COLON \o SP \o V_TEST_ACCOUNT,
      M_BANK_SORT_CODE \o COLON \o SP \o V_12_34_56,
      M_ACCOUNT_NUMBER \o COLON \o SP \o V_12345678>>

\* a block as the test writes it: every line indented, a whitespace-only line after it
Indented(block) ==
    [k \in 1..(Len(block) + 1) |-> IF k <= Len(block) THEN V_INDENT \o block[k] ELSE V_INDENT]

\* test_content of test_extract_structured_data
TestContent ==
    NL \o Join(Indented(TestHeader) \o Indented(TestCustomer) \o Indented(TestInvoice)
               \o Indented(TestMeter) \o Indented(TestBilling) \o Indented(TestPayment), NL)

\* blocks in the layout of the scanners: the value on the line after its marker
LayoutVatEmpty == <<M_VAT_NO \o COLON>>

LayoutVatColons == <<V_HEAD_OFFICE, V_MAIN_RD, M_VAT_NO \o V_GB_COLONS>>

LayoutCustomer == <<M_ADDRESS_WHERE, V_ELM_ST, M_BILL_PAYER, V_PO_BOX>>

LayoutInvoice == <<M_INVOICE_NUMBER_C, V_INV9, M_INVOICE_DATE_C, V_01_MAR, M_PAYMENT_DUE_C>>

LayoutMeterImport == <<V_777, V_IMPORT, V_5, V_01_JAN, V_6, V_01_FEB>>

LayoutMeterBleed == <<V_42, V_EXPORT_UPPER, V_10, V_01_JAN, V_20_05_FEB, V_TOTAL>>

LayoutDigits == <<V_34, V_5>>

\* two blocks that overlap: the second serial number is the first block's start value
LayoutMeterOverlap ==
    <<V_5, V_GENERATION, V_6, V_EXPORT_UPPER, V_10, V_01_JAN, V_34, V_01_FEB, V_TOTAL>>

LayoutBilling ==
    <<M_TOTAL_CONSUMPTION, V_NA, M_NET_COST, V_150_00, M_VAT_AT \o V_20 \o PERCENT \o V_OF_NET,
      M_TOTAL_AMOUNT_DUE, V_180_00>>

LayoutBillingGated == <<M_BILLING_PERIOD, V_FEB_2024, M_COST_PER_KWH, V_0_15>>

LayoutPayment ==
    <<M_ACCOUNT_NAME, V_TEST_ACCOUNT, M_BANK_SORT_CODE, V_12_34_56, M_ACCOUNT_NUMBER,
      V_12345678>>

\* ' of '
V_OF == <<" ", "o", "f", " ">>

\* ' incl. '
V_INCL == <<" ", "i", "n", "c", "l", ".", " ">>

\* a header row of two columns read as one line: 'Invoice Number: Invoice Date:'
LayoutInvoiceRow == <<M_INVOICE_NUMBER_C \o SP \o M_INVOICE_DATE_C, V_INV123>>

\* 'VAT @ 20% of Net Cost' and the line after it
LayoutVatOfNetCost == <<M_VAT_AT \o V_20 \o PERCENT \o V_OF \o M_NET_COST, V_150_00>>

\* 'Total Amount Due incl. VAT @ 20%' and the line after it
LayoutTotalInclVat == <<M_TOTAL_AMOUNT_DUE \o V_INCL \o M_VAT_AT \o V_20 \o PERCENT, V_180_00>>

\* the blocks a text is put together from
Segments ==
    <<Indented(TestHeader), Indented(TestCustomer), Indented(TestInvoice), Indented(TestMeter),
      Indented(TestBilling), Indented(TestPayment),
      LayoutVatEmpty, LayoutVatColons, LayoutCustomer, LayoutInvoice, LayoutMeterImport,
      LayoutMeterBleed, LayoutDigits, LayoutMeterOverlap, LayoutBilling, LayoutBillingGated, LayoutPayment>>

\* the most blocks in a text
MaxSegs == 2

\* the most blocks in a text whose scanners run in any order
MaxSegsAnyOrder == 1

RECURSIVE Flatten(_)
Flatten(blocks) == IF blocks = <<>> THEN <<>> ELSE Head(blocks) \o Flatten(Tail(blocks))

\* the texts of at most n blocks, their lines separated by line breaks
Texts(n) ==
    UNION {{Join(Flatten([k \in 1..m |-> Segments[c[k]]]), NL) :
                c \in [1..m -> 1..Len(Segments)]} : m \in 0..n}

\* texts with a line that holds two markers
RowTexts ==
    {Join(b, NL) : b \in {LayoutInvoiceRow, LayoutInvoice \o LayoutInvoiceRow,
                          LayoutVatOfNetCost, LayoutTotalInclVat}}

\* the inputs of extract_structured_data
Contents == Texts(MaxSegs) \cup {V_WHITESPACE_ONLY, TestContent} \cup RowTexts

\* the inputs of the runs in any order
ContentsAnyOrder == Texts(MaxSegsAnyOrder) \cup {TestContent} \cup RowTexts

\* str(e) of the faults raised inside the try block
Faults == {E_FAULT, <<>>}

(***************************************************************************)
(* extract_structured_data: the record and the bodies of its six scanners  *)
(***************************************************************************)

\* NewData with the error field set up front
NewData_eager_error ==
    [company_info |-> EmptyDict, customer_info |-> EmptyDict,
     invoice_details |-> EmptyDict, meter_readings |-> <<>>,
     billing_details |-> EmptyDict, payment_details |-> EmptyDict,
     extraction_error |-> None]

\* data as constructed at the top of extract_structured_data
NewData ==
    [company_info |-> EmptyDict, customer_info |-> EmptyDict,
     invoice_details |-> EmptyDict, meter_readings |-> <<>>,
     billing_details |-> EmptyDict, payment_details |-> EmptyDict]

\* data[section][key] = value
SetField(d, section, key, value) == [d EXCEPT ![section] = (key :> value) @@ @]

\* not content or not content.strip()
IsBlank(text) == text = <<>> \/ Strip(text) = <<>>

\* [line.strip() for line in content.split('\n') if line.strip()]
Normalize(text) ==
    LET raw == Split(text, NL)
        stripped == [k \in 1..Len(raw) |-> Strip(raw[k])]
    IN SelectSeq(stripped, LAMBDA l : l # <<>>)

\* company_body with the append ahead of the marker test: the VAT line joins the buffer
company_body_keeps_marker(ls, k, address) ==
    IF Contains(ls[k], M_VAT_NO)
    THEN [brk |-> TRUE, company_address |-> Append(address, ls[k]),
          vat_number |-> Remove(Strip(SplitLast(ls[k], M_VAT_NO)), COLON)]
    ELSE [brk |-> FALSE, company_address |-> Append(address, ls[k]), vat_number |-> None]

\* one pass of the company loop at lines[i]: the VAT line ends the loop, any other
\* line joins the address buffer
company_body(ls, k, address) ==
    IF Contains(ls[k], M_VAT_NO)
    THEN [brk |-> TRUE, company_address |-> address,
          vat_number |-> Remove(Strip(SplitLast(ls[k], M_VAT_NO)), COLON)]
    ELSE [brk |-> FALSE, company_address |-> Append(address, ls[k]), vat_number |-> None]

\* company_end testing `vat_number is not None` instead of its truth value
company_end_unguarded(d, address, vat) ==
    LET d1 == IF address # <<>>
              THEN SetField(d, "company_info", "address", Join(LastN(address, 4), SP))
              ELSE d
    IN IF vat # None THEN SetField(d1, "company_info", "vat_number", vat) ELSE d1

\* what follows the company loop: the two guarded writes into company_info
company_end(d, address, vat) ==
    LET d1 == IF address # <<>>
              THEN SetField(d, "company_info", "address", Join(LastN(address, 4), SP))
              ELSE d
    IN IF Truthy(vat) THEN SetField(d1, "company_info", "vat_number", vat) ELSE d1

\* whether lines[j] ends the customer address
IsSentinel(l) ==
    \/ StartsWith(l, M_BILL_PAYER)
    \/ StartsWith(l, M_INVOICE_NUMBER)
    \/ StartsWith(l, M_METER_SERIALS)

\* the inner while loop of the customer scanner, from lines[j]
RECURSIVE customer_address(_, _)
customer_address(ls, j) ==
    IF j <= Len(ls) /\ ~IsSentinel(ls[j])
    THEN (IF ls[j] # <<>> THEN <<ls[j]>> ELSE <<>>) \o customer_address(ls, j + 1)
    ELSE <<>>

\* customer_body without the break: a later marker line starts the address again
customer_body_no_break(ls, k, d) ==
    IF Contains(ls[k], M_ADDRESS_WHERE)
    THEN [brk |-> FALSE,
          data |-> IF customer_address(ls, k + 1) # <<>>
                   THEN SetField(d, "customer_info", "address",
                                 Join(customer_address(ls, k + 1), SP))
                   ELSE d]
    ELSE [brk |-> FALSE, data |-> d]

\* one pass of the customer loop at lines[i]
customer_body(ls, k, d) ==
    IF Contains(ls[k], M_ADDRESS_WHERE)
    THEN [brk |-> TRUE,
          data |-> IF customer_address(ls, k + 1) # <<>>
                   THEN SetField(d, "customer_info", "address",
                                 Join(customer_address(ls, k + 1), SP))
                   ELSE d]
    ELSE [brk |-> FALSE, data |-> d]

\* one pass of the invoice loop at lines[i]
invoice_body(ls, k, d) ==
    IF Contains(ls[k], M_INVOICE_NUMBER_C) /\ k < Len(ls)
    THEN SetField(d, "invoice_details", "number", Strip(ls[k + 1]))
    ELSE IF Contains(ls[k], M_INVOICE_DATE_C) /\ k < Len(ls)
    THEN SetField(d, "invoice_details", "date", Strip(ls[k + 1]))
    ELSE IF Contains(ls[k], M_PAYMENT_DUE_C) /\ k < Len(ls)
    THEN SetField(d, "invoice_details", "due_date", Strip(ls[k + 1]))
    ELSE d

\* any(month in end_value for month in [...]) and len(end_value.split(" ", 1)) == 2
DateBleeds(end_value) ==
    (\E month \in Months : Contains(end_value, month)) /\ Contains(end_value, SP)

\* meter_body comparing the meter type as written, without lower()
meter_body_no_lower(ls, k, d) ==
    IF IsDigit(ls[k]) /\ k + 5 <= Len(ls)
    THEN LET meter_type == Strip(ls[k + 1])
             end_value == Strip(ls[k + 4])
             reading ==
                 [type |-> meter_type,
                  serial_number |-> ls[k],
                  start_reading |-> [value |-> Strip(ls[k + 2]), date |-> Strip(ls[k + 3])],
                  end_reading |->
                      IF DateBleeds(end_value)
                      THEN [value |-> BeforeFirst(end_value, SP),
                            date |-> AfterFirst(end_value, SP)]
                      ELSE [value |-> end_value, date |-> Strip(ls[k + 5])]]
         IN IF meter_type \in {M_GENERATION, M_EXPORT}
            THEN [d EXCEPT !.meter_readings = Append(@, reading)]
            ELSE d
    ELSE d

\* meter_body without the date correction
meter_body_no_bleed(ls, k, d) ==
    IF IsDigit(ls[k]) /\ k + 5 <= Len(ls)
    THEN LET meter_type == Lower(Strip(ls[k + 1]))
             end_value == Strip(ls[k + 4])
             reading ==
                 [type |-> meter_type,
                  serial_number |-> ls[k],
                  start_reading |-> [value |-> Strip(ls[k + 2]), date |-> Strip(ls[k + 3])],
                  end_reading |->
                      [value |-> end_value, date |-> Strip(ls[k + 5])]]
         IN IF meter_type \in {M_GENERATION, M_EXPORT}
            THEN [d EXCEPT !.meter_readings = Append(@, reading)]
            ELSE d
    ELSE d

\* one pass of the meter loop at lines[i]
meter_body(ls, k, d) ==
    IF IsDigit(ls[k]) /\ k + 5 <= Len(ls)
    THEN LET meter_type == Lower(Strip(ls[k + 1]))
             end_value == Strip(ls[k + 4])
             reading ==
                 [type |-> meter_type,
                  serial_number |-> ls[k],
                  start_reading |-> [value |-> Strip(ls[k + 2]), date |-> Strip(ls[k + 3])],
                  end_reading |->
                      IF DateBleeds(end_value)
                      THEN [value |-> BeforeFirst(end_value, SP),
                            date |-> AfterFirst(end_value, SP)]
                      ELSE [value |-> end_value, date |-> Strip(ls[k + 5])]]
         IN IF meter_type \in {M_GENERATION, M_EXPORT}
            THEN [d EXCEPT !.meter_readings = Append(@, reading)]
            ELSE d
    ELSE d

\* Gated assigning in both branches: a next line without a digit clears the local
Gated_erases(ls, k, old) == IF AnyDigit(Strip(ls[k + 1])) THEN Strip(ls[k + 1]) ELSE None

\* the value a digit-gated billing marker takes from the next line, or the old one
Gated(ls, k, old) == IF AnyDigit(Strip(ls[k + 1])) THEN Strip(ls[k + 1]) ELSE old

\* one pass of the billing loop at lines[i]; loc holds billing_period, rate, consumption
billing_body(ls, k, d, loc) ==
    IF Contains(ls[k], M_BILLING_PERIOD) /\ k < Len(ls)
    THEN [data |-> d, loc |-> [loc EXCEPT !.billing_period = Gated(ls, k, @)]]
    ELSE IF Contains(ls[k], M_COST_PER_KWH) /\ k < Len(ls)
    THEN [data |-> d, loc |-> [loc EXCEPT !.rate = Gated(ls, k, @)]]
    ELSE IF Contains(ls[k], M_TOTAL_CONSUMPTION) /\ k < Len(ls)
    THEN [data |-> d, loc |-> [loc EXCEPT !.consumption = Gated(ls, k, @)]]
    ELSE IF Contains(ls[k], M_NET_COST) /\ k < Len(ls)
    THEN [data |-> SetField(d, "billing_details", "net_cost", Strip(ls[k + 1])), loc |-> loc]
    ELSE IF Contains(ls[k], M_VAT_AT)
    THEN [data |-> SetField(d, "billing_details", "vat",
                            Strip(BeforeFirst(SplitLast(ls[k], M_VAT_AT), PERCENT)) \o PERCENT),
          loc |-> loc]
    ELSE IF Contains(ls[k], M_TOTAL_AMOUNT_DUE) /\ k < Len(ls)
    THEN [data |-> SetField(d, "billing_details", "total", Strip(ls[k + 1])), loc |-> loc]
    ELSE [data |-> d, loc |-> loc]

\* the locals of _extract_billing_details as it starts
NewBilling == [billing_period |-> None, rate |-> None, consumption |-> None]

\* what follows the billing loop: the three guarded writes into billing_details
billing_end(d, loc) ==
    LET d1 == IF Truthy(loc.billing_period)
              THEN SetField(d, "billing_details", "period", loc.billing_period) ELSE d
        d2 == IF Truthy(loc.rate) THEN SetField(d1, "billing_details", "rate", loc.rate) ELSE d1
    IN IF Truthy(loc.consumption)
       THEN SetField(d2, "billing_details", "consumption", loc.consumption) ELSE d2

\* payment_body writing the account name into billing_details["total"]
payment_body_wrong_section(ls, k, d) ==
    IF Contains(ls[k], M_ACCOUNT_NAME) /\ k < Len(ls)
    THEN SetField(d, "billing_details", "total", Strip(ls[k + 1]))
    ELSE IF Contains(ls[k], M_BANK_SORT_CODE) /\ k < Len(ls)
    THEN SetField(d, "payment_details", "sort_code", Strip(ls[k + 1]))
    ELSE IF Contains(ls[k], M_ACCOUNT_NUMBER) /\ k < Len(ls)
    THEN SetField(d, "payment_details", "account_number", Strip(ls[k + 1]))
    ELSE d

\* one pass of the payment loop at lines[i]
payment_body(ls, k, d) ==
    IF Contains(ls[k], M_ACCOUNT_NAME) /\ k < Len(ls)
    THEN SetField(d, "payment_details", "account_name", Strip(ls[k + 1]))
    ELSE IF Contains(ls[k], M_BANK_SORT_CODE) /\ k < Len(ls)
    THEN SetField(d, "payment_details", "sort_code", Strip(ls[k + 1]))
    ELSE IF Contains(ls[k], M_ACCOUNT_NUMBER) /\ k < Len(ls)
    THEN SetField(d, "payment_details", "account_number", Strip(ls[k + 1]))
    ELSE d

\* no except clause: the exception leaves the function
except_handler_reraise(d, e) == [data |-> d, propagates |-> TRUE]

\* an except clause that starts the record again
except_handler_reset(d, e) == [data |-> ("extraction_error" :> e) @@ NewData, propagates |-> FALSE]

\* the except clause: data["extraction_error"] = str(e); the function then returns data
except_handler(d, e) == [data |-> ("extraction_error" :> e) @@ d, propagates |-> FALSE]

(***************************************************************************)
(* extract_structured_data as a function: each scanner's loop run to its   *)
(* end, the scanners composed in the order of the code.  A loop's state    *)
(* (the index k and what the loop has built) is one record, st.            *)
(***************************************************************************)

RECURSIVE company_loop(_, _)
company_loop(ls, st) ==
    IF st.k > Len(ls) \/ st.brk THEN st
    ELSE company_loop(ls, [k |-> st.k + 1] @@ company_body(ls, st.k, st.company_address))

company_scan(ls, d) ==
    LET st == company_loop(ls, [k |-> 1, brk |-> FALSE, company_address |-> <<>>,
                                vat_number |-> None])
    IN company_end(d, st.company_address, st.vat_number)

RECURSIVE customer_loop(_, _)
customer_loop(ls, st) ==
    IF st.k > Len(ls) \/ st.brk THEN st
    ELSE customer_loop(ls, [k |-> st.k + 1] @@ customer_body(ls, st.k, st.data))

customer_scan(ls, d) == customer_loop(ls, [k |-> 1, brk |-> FALSE, data |-> d]).data

RECURSIVE invoice_loop(_, _)
invoice_loop(ls, st) ==
    IF st.k > Len(ls) THEN st
    ELSE invoice_loop(ls, [k |-> st.k + 1, data |-> invoice_body(ls, st.k, st.data)])

invoice_scan(ls, d) == invoice_loop(ls, [k |-> 1, data |-> d]).data

RECURSIVE meter_loop(_, _)
meter_loop(ls, st) ==
    IF st.k > Len(ls) THEN st
    ELSE meter_loop(ls, [k |-> st.k + 1, data |-> meter_body(ls, st.k, st.data)])

meter_scan(ls, d) == meter_loop(ls, [k |-> 1, data |-> d]).data

RECURSIVE billing_loop(_, _)
billing_loop(ls, st) ==
    IF st.k > Len(ls) THEN st
    ELSE billing_loop(ls, [k |-> st.k + 1] @@ billing_body(ls, st.k, st.data, st.loc))

\* _extract_billing_details(lines, data)
_extract_billing_details(ls, d) ==
    LET st == billing_loop(ls, [k |-> 1, data |-> d, loc |-> NewBilling])
    IN billing_end(st.data, st.loc)

RECURSIVE payment_loop(_, _)
payment_loop(ls, st) ==
    IF st.k > Len(ls) THEN st
    ELSE payment_loop(ls, [k |-> st.k + 1, data |-> payment_body(ls, st.k, st.data)])

\* _extract_payment_details(lines, data)
_extract_payment_details(ls, d) == payment_loop(ls, [k |-> 1, data |-> d]).data

\* extract_structured_data(content), when nothing raises
extract_structured_data(text) ==
    IF IsBlank(text) THEN NewData
    ELSE LET ls == Normalize(text)
             d1 == company_scan(ls, NewData)
             d2 == customer_scan(ls, d1)
             d3 == invoice_scan(ls, d2)
             d4 == meter_scan(ls, d3)
             d5 == _extract_billing_details(ls, d4)
         IN _extract_payment_details(ls, d5)

(***************************************************************************)
(* extract_structured_data as a state machine: one step per loop pass      *)
(***************************************************************************)

VARIABLES
    content,          \* the argument of extract_structured_data
    pc,               \* where the call is
    lines,            \* the filtered line list
    data,             \* the record under construction
    i,                \* the index of the running loop
    company_address,  \* the address buffer of the company loop
    vat_number,       \* the VAT number found by the company loop
    billing,          \* billing_period, rate, consumption of _extract_billing_details
    exc,              \* str(e) of the exception raised inside the try block, if any
    first,            \* the scanner that ran first
    ran,              \* the scanners that have finished
    outcome           \* how the call ended: "returned" or "raised"

\* the state of a process_pdf request
VARIABLES
    env,              \* the environment variables that are set
    file_name,        \* req.params.get('file_name')
    ppc,              \* where process_pdf is
    response,         \* the HttpResponse returned
    temp_exists,      \* the temporary PDF file is on disk
    temp_file_path,   \* temp_file_path is bound
    pending,          \* the exception on its way through the finally block, if any
    downloaded,       \* the PDF was read from the file share
    analyzed,         \* Form Recognizer returned a result
    uploaded,         \* the result JSON was written to blob storage
    posts             \* the webhook posts made, in order

\* the state of a call of main of PdfOcrFunction, which shares env, file_name,
\* response, downloaded, uploaded and posts with process_pdf
VARIABLES
    mpc,              \* where main is
    attempt,          \* the status requests made by the polling loop
    status,           \* result_data.get('status') of the last status response
    error             \* str(e) of the exception on its way to the except clause

extractVars ==
    <<content, pc, lines, data, i, company_address, vat_number, billing, exc, first, ran,
      outcome>>

pdfVars ==
    <<env, file_name, ppc, response, temp_exists, temp_file_path, pending, downloaded,
      analyzed, uploaded, posts>>

mainVars == <<mpc, attempt, status, error>>

vars == <<extractVars, pdfVars, mainVars>>

\* the six scanners, in the order of the code
CodeOrder == <<"company", "customer", "invoice", "meter", "billing", "payment">>

Scanners == {CodeOrder[k] : k \in 1..Len(CodeOrder)}

\* the places inside the try block
TryPcs == Scanners \cup {"company_loop", "company_end", "billing_loop"}

\* where the call goes when scanner k has finished: the next scanner of the code,
\* or (anyOrder) any scanner that has not run
After(k, anyOrder) ==
    IF anyOrder
    THEN IF Scanners \ (ran \cup {k}) = {} THEN {"ret"} ELSE Scanners \ (ran \cup {k})
    ELSE LET n == CHOOSE n \in 1..Len(CodeOrder) : CodeOrder[n] = k
         IN {IF n = Len(CodeOrder) THEN "ret" ELSE CodeOrder[n + 1]}

Finish(k, anyOrder) ==
    /\ \E n \in After(k, anyOrder) : pc' = n
    /\ ran' = ran \cup {k}
    /\ i' = 1

\* no HttpResponse yet
NoResponse == [status_code |-> 0, body |-> "", discord_sent |-> FALSE, slack_sent |-> FALSE]

\* no main request is being served
MainIdle ==
    /\ mpc = "idle"
    /\ attempt = 0
    /\ status = "none"
    /\ error = ""

\* no process_pdf request is being served
PdfIdle ==
    /\ env = {}
    /\ file_name = None
    /\ ppc = "idle"
    /\ response = NoResponse
    /\ temp_exists = FALSE
    /\ temp_file_path = FALSE
    /\ pending = "none"
    /\ downloaded = FALSE
    /\ analyzed = FALSE
    /\ uploaded = FALSE
    /\ posts = <<>>

InitWith(texts) ==
    /\ content \in texts
    /\ pc = "entry"
    /\ lines = <<>>
    /\ data = EmptyDict
    /\ i = 1
    /\ company_address = <<>>
    /\ vat_number = None
    /\ billing = NewBilling
    /\ exc = None
    /\ first = "none"
    /\ ran = {}
    /\ outcome = "running"
    /\ PdfIdle
    /\ MainIdle

Init == InitWith(Contents)

\* the record is built; blank content returns it at once, other content is split
\* into lines and enters the try block
Enter(anyOrder) ==
    /\ pc = "entry"
    /\ data' = NewData
    /\ IF IsBlank(content)
       THEN /\ pc' = "done"
            /\ outcome' = "returned"
            /\ UNCHANGED <<lines, first>>
       ELSE /\ lines' = Normalize(content)
            /\ \E n \in (IF anyOrder THEN Scanners ELSE {CodeOrder[1]}) : pc' = n /\ first' = n
            /\ outcome' = outcome
    /\ UNCHANGED pdfVars
    /\ UNCHANGED mainVars
    /\ UNCHANGED <<content, i, company_address, vat_number, billing, exc, ran>>

CompanyBegin ==
    /\ pc = "company"
    /\ company_address' = <<>>
    /\ vat_number' = None
    /\ pc' = "company_loop"
    /\ i' = 1
    /\ UNCHANGED pdfVars
    /\ UNCHANGED mainVars
    /\ UNCHANGED <<content, lines, data, billing, exc, first, ran, outcome>>

CompanyStep ==
    /\ pc = "company_loop"
    /\ i <= Len(lines)
    /\ LET r == company_body(lines, i, company_address)
       IN /\ company_address' = r.company_address
          /\ vat_number' = IF r.brk THEN r.vat_number ELSE vat_number
          /\ pc' = IF r.brk THEN "company_end" ELSE pc
          /\ i' = IF r.brk THEN i ELSE i + 1
    /\ UNCHANGED pdfVars
    /\ UNCHANGED mainVars
    /\ UNCHANGED <<content, lines, data, billing, exc, first, ran, outcome>>

CompanyEnd(anyOrder) ==
    /\ pc = "company_end" \/ (pc = "company_loop" /\ i > Len(lines))
    /\ data' = company_end(data, company_address, vat_number)
    /\ Finish("company", anyOrder)
    /\ UNCHANGED pdfVars
    /\ UNCHANGED mainVars
    /\ UNCHANGED <<content, lines, company_address, vat_number, billing, exc, first, outcome>>

CustomerStep(anyOrder) ==
    /\ pc = "customer"
    /\ i <= Len(lines)
    /\ LET r == customer_body(lines, i, data)
       IN /\ data' = r.data
          /\ IF r.brk
             THEN Finish("customer", anyOrder)
             ELSE i' = i + 1 /\ UNCHANGED <<pc, ran>>
    /\ UNCHANGED pdfVars
    /\ UNCHANGED mainVars
    /\ UNCHANGED <<content, lines, company_address, vat_number, billing, exc, first, outcome>>

InvoiceStep ==
    /\ pc = "invoice"
    /\ i <= Len(lines)
    /\ data' = invoice_body(lines, i, data)
    /\ i' = i + 1
    /\ UNCHANGED pdfVars
    /\ UNCHANGED mainVars
    /\ UNCHANGED <<content, pc, lines, company_address, vat_number, billing, exc, first, ran,
                   outcome>>

MeterStep ==
    /\ pc = "meter"
    /\ i <= Len(lines)
    /\ data' = meter_body(lines, i, data)
    /\ i' = i + 1
    /\ UNCHANGED pdfVars
    /\ UNCHANGED mainVars
    /\ UNCHANGED <<content, pc, lines, company_address, vat_number, billing, exc, first, ran,
                   outcome>>

BillingCall ==
    /\ pc = "billing"
    /\ billing' = NewBilling
    /\ pc' = "billing_loop"
    /\ i' = 1
    /\ UNCHANGED pdfVars
    /\ UNCHANGED mainVars
    /\ UNCHANGED <<content, lines, data, company_address, vat_number, exc, first, ran, outcome>>

BillingStep ==
    /\ pc = "billing_loop"
    /\ i <= Len(lines)
    /\ LET r == billing_body(lines, i, data, billing)
       IN data' = r.data /\ billing' = r.loc
    /\ i' = i + 1
    /\ UNCHANGED pdfVars
    /\ UNCHANGED mainVars
    /\ UNCHANGED <<content, pc, lines, company_address, vat_number, exc, first, ran, outcome>>

BillingEnd(anyOrder) ==
    /\ pc = "billing_loop"
    /\ i > Len(lines)
    /\ data' = billing_end(data, billing)
    /\ Finish("billing", anyOrder)
    /\ UNCHANGED pdfVars
    /\ UNCHANGED mainVars
    /\ UNCHANGED <<content, lines, company_address, vat_number, billing, exc, first, outcome>>

PaymentStep ==
    /\ pc = "payment"
    /\ i <= Len(lines)
    /\ data' = payment_body(lines, i, data)
    /\ i' = i + 1
    /\ UNCHANGED pdfVars
    /\ UNCHANGED mainVars
    /\ UNCHANGED <<content, pc, lines, company_address, vat_number, billing, exc, first, ran,
                   outcome>>

\* a for loop with nothing after it runs out of lines
LoopExit(anyOrder) ==
    /\ pc \in {"customer", "invoice", "meter", "payment"}
    /\ i > Len(lines)
    /\ Finish(pc, anyOrder)
    /\ UNCHANGED pdfVars
    /\ UNCHANGED mainVars
    /\ UNCHANGED <<content, lines, data, company_address, vat_number, billing, exc, first,
                   outcome>>

\* an exception inside the try block, and the except clause
Fault ==
    /\ pc \in TryPcs
    /\ \E e \in Faults :
          /\ exc' = e
          /\ data' = except_handler(data, e).data
          /\ IF except_handler(data, e).propagates
             THEN pc' = "done" /\ outcome' = "raised"
             ELSE pc' = "ret" /\ outcome' = outcome
    /\ UNCHANGED pdfVars
    /\ UNCHANGED mainVars
    /\ UNCHANGED <<content, lines, i, company_address, vat_number, billing, first, ran>>

\* return data, at the end of the function
Return ==
    /\ pc = "ret"
    /\ pc' = "done"
    /\ outcome' = "returned"
    /\ UNCHANGED pdfVars
    /\ UNCHANGED mainVars
    /\ UNCHANGED <<content, lines, data, i, company_address, vat_number, billing, exc, first,
                   ran>>

Next ==
    \/ Enter(FALSE)
    \/ CompanyBegin
    \/ CompanyStep
    \/ CompanyEnd(FALSE)
    \/ CustomerStep(FALSE)
    \/ InvoiceStep
    \/ MeterStep
    \/ BillingCall
    \/ BillingStep
    \/ BillingEnd(FALSE)
    \/ PaymentStep
    \/ LoopExit(FALSE)
    \/ Fault
    \/ Return

Spec == Init /\ [][Next]_vars

(***************************************************************************)
(* The same scanners run in any order, without faults                      *)
(***************************************************************************)

InitAnyOrder == InitWith(ContentsAnyOrder)

NextAnyOrder ==
    \/ Enter(TRUE)
    \/ CompanyBegin
    \/ CompanyStep
    \/ CompanyEnd(TRUE)
    \/ CustomerStep(TRUE)
    \/ InvoiceStep
    \/ MeterStep
    \/ BillingCall
    \/ BillingStep
    \/ BillingEnd(TRUE)
    \/ PaymentStep
    \/ LoopExit(TRUE)
    \/ Return

SpecAnyOrder == InitAnyOrder /\ [][NextAnyOrder]_vars

(***************************************************************************)
(* process_pdf: one step per call that can fail                            *)
(***************************************************************************)

\* required_vars of validate_environment_variables
RequiredVars ==
    {"FileShareConnectionString", "FormRecognizerEndpoint", "FormRecognizerKey",
     "BlobStorageConnectionString"}

\* the variables the notification functions read
WebhookVars == {"DiscordWebhookUrl", "SlackWebhookUrl"}

\* '.pdf'
DOT_PDF == <<".", "p", "d", "f">>

\* 'a.PDF'
F_PDF_UPPER == <<"a", ".", "P", "D", "F">>

\* 'a.txt'
F_TXT == <<"a", ".", "t", "x", "t">>

\* the values of req.params.get('file_name'): no parameter, an empty one, two names
FileNames == {None, <<>>, F_TXT, F_PDF_UPPER}

\* result.content of the analysis
OcrContents == {<<>>, TestContent}

\* s.endswith(suffix)
EndsWith(s, suffix) ==
    Len(suffix) <= Len(s) /\ SubSeq(s, Len(s) - Len(suffix) + 1, Len(s)) = suffix

\* validate_environment_variables() raises ValueError
MissingVars(e) == RequiredVars \ e # {}

\* send_discord_notification(message), send_slack_notification(message): a post is
\* made when the webhook is configured, and the result is whether it went through
Notify(discord_ok, slack_ok) ==
    [posts |-> (IF "DiscordWebhookUrl" \in env THEN <<"discord">> ELSE <<>>)
               \o (IF "SlackWebhookUrl" \in env THEN <<"slack">> ELSE <<>>),
     discord_sent |-> "DiscordWebhookUrl" \in env /\ discord_ok,
     slack_sent |-> "SlackWebhookUrl" \in env /\ slack_ok]

\* func.HttpResponse(body, status_code=...)
HttpResponse(body, status_code) ==
    [status_code |-> status_code, body |-> body, discord_sent |-> FALSE, slack_sent |-> FALSE]

InitPdf ==
    /\ content = <<>>
    /\ pc = "idle"
    /\ lines = <<>>
    /\ data = EmptyDict
    /\ i = 1
    /\ company_address = <<>>
    /\ vat_number = None
    /\ billing = NewBilling
    /\ exc = None
    /\ first = "none"
    /\ ran = {}
    /\ outcome = "running"
    /\ env \in SUBSET (RequiredVars \cup WebhookVars)
    /\ file_name \in FileNames
    /\ ppc = "start"
    /\ response = NoResponse
    /\ temp_exists = FALSE
    /\ temp_file_path = FALSE
    /\ pending = "none"
    /\ downloaded = FALSE
    /\ analyzed = FALSE
    /\ uploaded = FALSE
    /\ posts = <<>>
    /\ MainIdle

\* validate_environment_variables()
PdfValidate ==
    /\ ppc = "start"
    /\ ppc' = IF MissingVars(env) THEN "except_ValueError" ELSE "params"
    /\ UNCHANGED <<env, file_name, response, temp_exists, temp_file_path, pending, downloaded,
                   analyzed, uploaded, posts>>
    /\ UNCHANGED extractVars
    /\ UNCHANGED mainVars

\* the checks of the file_name parameter
PdfParams ==
    /\ ppc = "params"
    /\ IF ~Truthy(file_name)
       THEN /\ response' = HttpResponse("Missing required parameter 'file_name'", 400)
            /\ ppc' = "done"
       ELSE IF ~EndsWith(Lower(file_name), DOT_PDF)
       THEN /\ response' = HttpResponse("File must be a PDF", 400)
            /\ ppc' = "done"
       ELSE /\ response' = response
            /\ ppc' = "share"
    /\ UNCHANGED <<env, file_name, temp_exists, temp_file_path, pending, downloaded, analyzed,
                   uploaded, posts>>
    /\ UNCHANGED extractVars
    /\ UNCHANGED mainVars

\* ShareServiceClient.from_connection_string(...) and the clients made from it; a
\* malformed connection string raises ValueError
PdfShareClient ==
    /\ ppc = "share"
    /\ \E ok \in BOOLEAN : ppc' = IF ok THEN "download" ELSE "except_ValueError"
    /\ UNCHANGED <<env, file_name, response, temp_exists, temp_file_path, pending, downloaded,
                   analyzed, uploaded, posts>>
    /\ UNCHANGED extractVars
    /\ UNCHANGED mainVars

\* the with block: the temporary file is created (delete=False); the download either
\* fills it and binds temp_file_path, or raises and the exception leaves the block
PdfDownload ==
    /\ ppc = "download"
    /\ temp_exists' = TRUE
    /\ \E ok \in BOOLEAN :
          /\ downloaded' = ok
          /\ temp_file_path' = ok
          /\ ppc' = IF ok THEN "analyze" ELSE "except_Exception"
    /\ UNCHANGED <<env, file_name, response, pending, analyzed, uploaded, posts>>
    /\ UNCHANGED extractVars
    /\ UNCHANGED mainVars

\* the try block: the analysis, then extract_structured_data(result.content); an
\* exception of the analysis goes through the finally block
PdfAnalyze ==
    /\ ppc = "analyze"
    /\ \/ \E text \in OcrContents :
             /\ analyzed' = TRUE
             /\ content' = text
             /\ data' = extract_structured_data(text)
             /\ pending' = "none"
       \/ /\ pending' = "Exception"
          /\ UNCHANGED <<analyzed, content, data>>
    /\ ppc' = "finally"
    /\ UNCHANGED <<env, file_name, response, temp_exists, temp_file_path, downloaded, uploaded,
                   posts>>
    /\ UNCHANGED <<pc, lines, i, company_address, vat_number, billing, exc, first, ran, outcome>>
    /\ UNCHANGED mainVars

\* finally: the temporary file is removed if it exists, and a pending exception goes on
PdfFinally ==
    /\ ppc = "finally"
    /\ temp_exists' = FALSE
    /\ ppc' = IF pending = "none" THEN "blob" ELSE "except_Exception"
    /\ pending' = "none"
    /\ UNCHANGED <<env, file_name, response, temp_file_path, downloaded, analyzed, uploaded,
                   posts>>
    /\ UNCHANGED extractVars
    /\ UNCHANGED mainVars

\* BlobServiceClient.from_connection_string(...); a malformed connection string raises
\* ValueError
PdfBlobClient ==
    /\ ppc = "blob"
    /\ \E ok \in BOOLEAN : ppc' = IF ok THEN "upload" ELSE "except_ValueError"
    /\ UNCHANGED <<env, file_name, response, temp_exists, temp_file_path, pending, downloaded,
                   analyzed, uploaded, posts>>
    /\ UNCHANGED extractVars
    /\ UNCHANGED mainVars

\* create_container() (its exception is swallowed) and upload_blob()
PdfUpload ==
    /\ ppc = "upload"
    /\ \E ok \in BOOLEAN :
          /\ uploaded' = ok
          /\ ppc' = IF ok THEN "notify" ELSE "except_Exception"
    /\ UNCHANGED <<env, file_name, response, temp_exists, temp_file_path, pending, downloaded,
                   analyzed, posts>>
    /\ UNCHANGED extractVars
    /\ UNCHANGED mainVars

\* the two notifications of the success path and the 200 response
PdfSucceed ==
    /\ ppc = "notify"
    /\ \E discord_ok \in BOOLEAN, slack_ok \in BOOLEAN :
          /\ posts' = posts \o Notify(discord_ok, slack_ok).posts
          /\ response' = [status_code |-> 200, body |-> "PDF processed successfully",
                          discord_sent |-> Notify(discord_ok, slack_ok).discord_sent,
                          slack_sent |-> Notify(discord_ok, slack_ok).slack_sent]
    /\ ppc' = "done"
    /\ UNCHANGED <<env, file_name, temp_exists, temp_file_path, pending, downloaded, analyzed,
                   uploaded>>
    /\ UNCHANGED extractVars
    /\ UNCHANGED mainVars

\* except ValueError: both notifications, then the 500 response
PdfExceptValueError ==
    /\ ppc = "except_ValueError"
    /\ \E discord_ok \in BOOLEAN, slack_ok \in BOOLEAN :
          posts' = posts \o Notify(discord_ok, slack_ok).posts
    /\ response' = HttpResponse("Configuration error", 500)
    /\ ppc' = "done"
    /\ UNCHANGED <<env, file_name, temp_exists, temp_file_path, pending, downloaded, analyzed,
                   uploaded>>
    /\ UNCHANGED extractVars
    /\ UNCHANGED mainVars

\* except Exception: both notifications, then the 500 response
PdfExceptException ==
    /\ ppc = "except_Exception"
    /\ \E discord_ok \in BOOLEAN, slack_ok \in BOOLEAN :
          posts' = posts \o Notify(discord_ok, slack_ok).posts
    /\ response' = HttpResponse("Error processing PDF", 500)
    /\ ppc' = "done"
    /\ UNCHANGED <<env, file_name, temp_exists, temp_file_path, pending, downloaded, analyzed,
                   uploaded>>
    /\ UNCHANGED extractVars
    /\ UNCHANGED mainVars

NextPdf ==
    \/ PdfValidate
    \/ PdfParams
    \/ PdfShareClient
    \/ PdfDownload
    \/ PdfAnalyze
    \/ PdfFinally
    \/ PdfBlobClient
    \/ PdfUpload
    \/ PdfSucceed
    \/ PdfExceptValueError
    \/ PdfExceptException

SpecPdf == InitPdf /\ [][NextPdf]_vars

(***************************************************************************)
(* main of PdfOcrFunction: one step per call that can fail                 *)
(***************************************************************************)

\* range(30) of the polling loop
MaxAttempts == 30

\* the values of result_data.get('status') that neither end nor fail the analysis
PendingStatuses == {"notStarted", "running"}

\* the outcomes of one status request: a status, or "raised" when the request or
\* the decoding of its response raises
PollOutcomes == {"succeeded", "failed", "raised"} \cup PendingStatuses

\* the body of the polling loop once the status request has been made
poll_body_ignores_failed(s) ==
    IF s = "succeeded" THEN [next |-> "upload", error |-> ""]
    ELSE IF s = "raised" THEN [next |-> "except", error |-> "URLError"]
    ELSE [next |-> "poll", error |-> ""]

\* the body of the polling loop once the status request has been made: break on
\* succeeded, raise on failed, go round again on anything else
poll_body(s) ==
    IF s = "succeeded" THEN [next |-> "upload", error |-> ""]
    ELSE IF s = "failed" THEN [next |-> "except", error |-> "Form Recognizer failed"]
    ELSE IF s = "raised" THEN [next |-> "except", error |-> "URLError"]
    ELSE [next |-> "poll", error |-> ""]

\* send_discord_notification, send_slack_notification of PdfOcrFunction: a post is
\* made when the webhook is configured; an exception of the post is logged and goes
\* no further
send_notifications(e, discord_ok, slack_ok) ==
    [posts |-> (IF "DiscordWebhookUrl" \in e
                THEN <<[hook |-> "discord", ok |-> discord_ok]>> ELSE <<>>)
               \o (IF "SlackWebhookUrl" \in e
                   THEN <<[hook |-> "slack", ok |-> slack_ok]>> ELSE <<>>)]

\* the success response of main
MainSuccess ==
    [status_code |-> 200, body |-> "PDF processed successfully using REST API",
     discord_sent |-> FALSE, slack_sent |-> FALSE]

\* an except clause that reports the error to the webhooks, as process_pdf does
main_except_notifies(e) ==
    [response |-> HttpResponse("Basic test error: " \o e, 500), notifies |-> TRUE]

\* the except clause of main: the 500 response and nothing else
main_except(e) ==
    [response |-> HttpResponse("Basic test error: " \o e, 500), notifies |-> FALSE]

InitMain ==
    /\ content = <<>>
    /\ pc = "idle"
    /\ lines = <<>>
    /\ data = EmptyDict
    /\ i = 1
    /\ company_address = <<>>
    /\ vat_number = None
    /\ billing = NewBilling
    /\ exc = None
    /\ first = "none"
    /\ ran = {}
    /\ outcome = "running"
    /\ env \in SUBSET (RequiredVars \cup WebhookVars)
    /\ file_name \in FileNames
    /\ ppc = "idle"
    /\ response = NoResponse
    /\ temp_exists = FALSE
    /\ temp_file_path = FALSE
    /\ pending = "none"
    /\ downloaded = FALSE
    /\ analyzed = FALSE
    /\ uploaded = FALSE
    /\ posts = <<>>
    /\ mpc = "start"
    /\ attempt = 0
    /\ status = "none"
    /\ error = ""

\* what every step of main leaves alone
MainFrame ==
    /\ UNCHANGED extractVars
    /\ UNCHANGED <<env, file_name, ppc, temp_exists, temp_file_path, pending, analyzed>>

\* the first try block: the file_name parameter
MainParams ==
    /\ mpc = "start"
    /\ IF ~Truthy(file_name)
       THEN /\ response' = HttpResponse("Missing 'file_name' parameter", 400)
            /\ mpc' = "done"
       ELSE /\ response' = response
            /\ mpc' = "config"
    /\ UNCHANGED <<downloaded, uploaded, posts, attempt, status, error>>
    /\ MainFrame

\* os.environ[...] of the four settings (KeyError when one is missing), the parsing
\* of the two connection strings and the decoding of the account key
MainConfig ==
    /\ mpc = "config"
    /\ IF MissingVars(env)
       THEN mpc' = "except" /\ error' = "KeyError"
       ELSE \E ok \in BOOLEAN :
               IF ok THEN mpc' = "download" /\ error' = error
               ELSE mpc' = "except" /\ error' = "list index out of range"
    /\ UNCHANGED <<response, downloaded, uploaded, posts, attempt, status>>
    /\ MainFrame

\* Step 1: the download from the file share
MainDownload ==
    /\ mpc = "download"
    /\ \E ok \in BOOLEAN :
          IF ok THEN mpc' = "submit" /\ downloaded' = TRUE /\ error' = error
          ELSE mpc' = "except" /\ downloaded' = FALSE /\ error' = "File Share auth error"
    /\ UNCHANGED <<response, uploaded, posts, attempt, status>>
    /\ MainFrame

\* Step 2: the analysis is started
MainSubmit ==
    /\ mpc = "submit"
    /\ \E ok \in BOOLEAN :
          IF ok THEN mpc' = "poll" /\ error' = error
          ELSE mpc' = "except" /\ error' = "HTTPError"
    /\ attempt' = 0
    /\ UNCHANGED <<response, downloaded, uploaded, posts, status>>
    /\ MainFrame

\* one pass of the polling loop: a status request and what its response leads to
MainPoll ==
    /\ mpc = "poll"
    /\ attempt < MaxAttempts
    /\ \E s \in PollOutcomes :
          /\ status' = s
          /\ mpc' = poll_body(s).next
          /\ error' = poll_body(s).error
    /\ attempt' = attempt + 1
    /\ UNCHANGED <<response, downloaded, uploaded, posts>>
    /\ MainFrame

\* the else clause of the polling loop: the range is used up
MainPollElse ==
    /\ mpc = "poll"
    /\ attempt >= MaxAttempts
    /\ mpc' = "except"
    /\ error' = "Form Recognizer timeout"
    /\ UNCHANGED <<response, downloaded, uploaded, posts, attempt, status>>
    /\ MainFrame

\* Steps 3 and 4: the result JSON is put into blob storage
MainUpload ==
    /\ mpc = "upload"
    /\ \E ok \in BOOLEAN :
          IF ok THEN mpc' = "notify" /\ uploaded' = TRUE /\ error' = error
          ELSE mpc' = "except" /\ uploaded' = FALSE /\ error' = "Blob Storage auth error"
    /\ UNCHANGED <<response, downloaded, posts, attempt, status>>
    /\ MainFrame

\* Step 5 and the return: both notifications, then the success response
MainSucceed ==
    /\ mpc = "notify"
    /\ \E discord_ok \in BOOLEAN, slack_ok \in BOOLEAN :
          posts' = posts \o send_notifications(env, discord_ok, slack_ok).posts
    /\ response' = MainSuccess
    /\ mpc' = "done"
    /\ UNCHANGED <<downloaded, uploaded, attempt, status, error>>
    /\ MainFrame

\* except Exception of the second try block
MainExcept ==
    /\ mpc = "except"
    /\ response' = main_except(error).response
    /\ \E discord_ok \in BOOLEAN, slack_ok \in BOOLEAN :
          posts' = IF main_except(error).notifies
                   THEN posts \o send_notifications(env, discord_ok, slack_ok).posts
                   ELSE posts
    /\ mpc' = "done"
    /\ UNCHANGED <<downloaded, uploaded, attempt, status, error>>
    /\ MainFrame

NextMain ==
    \/ MainParams
    \/ MainConfig
    \/ MainDownload
    \/ MainSubmit
    \/ MainPoll
    \/ MainPollElse
    \/ MainUpload
    \/ MainSucceed
    \/ MainExcept

SpecMain == InitMain /\ [][NextMain]_vars

\* every call main makes returns or raises, so a run of main goes on to its end
SpecMainFair == SpecMain /\ WF_vars(NextMain)

(***************************************************************************)
(* Properties of extract_structured_data                                   *)
(***************************************************************************)

\* the six sections of the record
Sections ==
    {"company_info", "customer_info", "invoice_details", "meter_readings", "billing_details",
     "payment_details"}

\* the sections that are dicts of fields
DictSections == Sections \ {"meter_readings"}

NoFault == "extraction_error" \notin DOMAIN data

\* the call has returned a record no fault has touched
Extracted == pc = "done" /\ outcome = "returned" /\ NoFault

\* the lines that contain marker m
LinesWith(m) == {k \in 1..Len(lines) : Contains(lines[k], m)}

\* C1: for every input text the call never raises and the record it returns has all
\* six sections: no run ends with an exception leaving the function, a loop index
\* never passes the end of the line list by more than one, and a finished call has
\* returned a record with the six sections.
C1_ReturnsSixSections ==
    /\ outcome # "raised"
    /\ i \in 1..(Len(lines) + 1)
    /\ pc = "done" => outcome = "returned" /\ Sections \subseteq DOMAIN data

\* C1 witness: a text with lines but none of the scanners' markers was processed and
\* the record returned.
C1_Witness ==
    /\ Extracted
    /\ lines # <<>>
    /\ \A s \in DictSections \ {"company_info"} : DOMAIN data[s] = {}

\* C2: for an empty or whitespace-only text the returned record has exactly the six
\* sections, every one of them empty, and no extraction_error field.
C2_BlankInputEmptyRecord ==
    (pc = "done" /\ \A k \in 1..Len(content) : content[k] \in Whitespace) =>
        /\ DOMAIN data = Sections
        /\ \A s \in DictSections : DOMAIN data[s] = {}
        /\ data["meter_readings"] = <<>>

\* C2 witness: a returned call whose text is whitespace and line breaks only.
C2_Witness ==
    /\ pc = "done"
    /\ outcome = "returned"
    /\ content # <<>>
    /\ \A k \in 1..Len(content) : content[k] \in Whitespace

\* C3 (as claimed): the recorded vat_number is the text after the marker on the first
\* marker line with the colons and the surrounding whitespace removed, so that
\* "VAT No.: 123456789" records "123456789".
C3_VatNumberTrimmed ==
    Extracted =>
        \A k \in LinesWith(M_VAT_NO) :
            (\A j \in LinesWith(M_VAT_NO) : k <= j) =>
                LET claimed == Strip(Remove(SplitLast(lines[k], M_VAT_NO), COLON))
                IN claimed # <<>> =>
                      /\ "vat_number" \in DOMAIN data["company_info"]
                      /\ data["company_info"]["vat_number"] = claimed

\* C4 (as claimed): when no line contains "VAT No.", company_info has neither a
\* vat_number nor an address.
C4_NoMarkerNoCompanyInfo ==
    (Extracted /\ LinesWith(M_VAT_NO) = {}) => DOMAIN data["company_info"] = {}

\* the indices that anchor a meter block: a digit-only line with five lines after it
\* whose next line, lower-cased, is a retained type
MeterAnchors ==
    {k \in 1..Len(lines) :
        /\ IsDigit(lines[k])
        /\ k + 5 <= Len(lines)
        /\ Lower(lines[k + 1]) \in {M_GENERATION, M_EXPORT}}

\* the n-th anchor in increasing order
MeterAnchor(n) ==
    CHOOSE k \in MeterAnchors : Cardinality({j \in MeterAnchors : j < k}) = n - 1

\* C5: meter_readings holds one entry per anchor index, in increasing index order,
\* and nothing else; the entry's serial number, type and start reading are the
\* block's lines, and so is its end reading unless the date correction applies (the
\* end value holds a month abbreviation and a space).
C5_MeterReadings ==
    Extracted =>
        /\ Len(data["meter_readings"]) = Cardinality(MeterAnchors)
        /\ \A n \in 1..Len(data["meter_readings"]) :
              LET k == MeterAnchor(n)
                  r == data["meter_readings"][n]
              IN /\ r.serial_number = lines[k]
                 /\ r.type = Lower(lines[k + 1])
                 /\ r.start_reading = [value |-> lines[k + 2], date |-> lines[k + 3]]
                 /\ ~((\E m \in Months : Contains(lines[k + 4], m)) /\ " " \in Range(lines[k + 4]))
                       => r.end_reading = [value |-> lines[k + 4], date |-> lines[k + 5]]

\* C5 witness: two overlapping blocks were both recorded, a block of another type was
\* dropped, and a digit-only line with fewer than five lines after it was passed over.
C5_Witness ==
    /\ Extracted
    /\ \E k \in MeterAnchors : \E j \in MeterAnchors : k < j /\ j <= k + 5
    /\ \E k \in 1..Len(lines) :
          /\ IsDigit(lines[k])
          /\ k + 5 <= Len(lines)
          /\ Lower(lines[k + 1]) \notin {M_GENERATION, M_EXPORT}
    /\ \E k \in 1..Len(lines) : IsDigit(lines[k]) /\ k + 5 > Len(lines)
    /\ Len(data["meter_readings"]) = 2

\* a value that is a str with at least one character
NonEmptyStr(v) == v # None /\ v # <<>>

\* C6: in the record under construction and in the record returned, every field
\* present in a dict section and every value of a meter reading is a non-empty string.
C6_NoEmptyFields ==
    Sections \subseteq DOMAIN data =>
        /\ \A s \in DictSections : \A f \in DOMAIN data[s] : NonEmptyStr(data[s][f])
        /\ \A n \in 1..Len(data["meter_readings"]) :
              LET r == data["meter_readings"][n]
              IN /\ NonEmptyStr(r.type)
                 /\ NonEmptyStr(r.serial_number)
                 /\ NonEmptyStr(r.start_reading.value)
                 /\ NonEmptyStr(r.start_reading.date)
                 /\ NonEmptyStr(r.end_reading.value)
                 /\ NonEmptyStr(r.end_reading.date)

\* C6 witness: the first VAT line has nothing but a colon after the marker, a billing
\* marker is followed by a line without a digit, and the record returned has neither
\* field while other fields are present.
C6_Witness ==
    /\ Extracted
    /\ \E k \in LinesWith(M_VAT_NO) :
          /\ \A j \in LinesWith(M_VAT_NO) : k <= j
          /\ Remove(SplitLast(lines[k], M_VAT_NO), COLON) = <<>>
    /\ "vat_number" \notin DOMAIN data["company_info"]
    /\ \E k \in LinesWith(M_TOTAL_CONSUMPTION) : k < Len(lines) /\ ~AnyDigit(lines[k + 1])
    /\ "consumption" \notin DOMAIN data["billing_details"]
    /\ "net_cost" \in DOMAIN data["billing_details"]

\* C7 (as claimed): with the value on the marker's own line as in the test input,
\* the record holds the same-line value: number is "INV123" when the only
\* "Invoice Number:" line is "Invoice Number: INV123" followed by an "Invoice Date:"
\* line, and total is "180.00" when the only "Total Amount Due" line is
\* "Total Amount Due: 180.00" followed by an "Account Name" line.
C7_SameLineValues ==
    Extracted =>
        /\ \A k \in LinesWith(M_INVOICE_NUMBER_C) :
              (/\ LinesWith(M_INVOICE_NUMBER_C) = {k}
               /\ lines[k] = M_INVOICE_NUMBER_C \o SP \o V_INV123
               /\ k < Len(lines)
               /\ Contains(lines[k + 1], M_INVOICE_DATE_C))
              => /\ "number" \in DOMAIN data["invoice_details"]
                 /\ data["invoice_details"]["number"] = V_INV123
        /\ \A k \in LinesWith(M_TOTAL_AMOUNT_DUE) :
              (/\ LinesWith(M_TOTAL_AMOUNT_DUE) = {k}
               /\ lines[k] = M_TOTAL_AMOUNT_DUE \o COLON \o SP \o V_180_00
               /\ k < Len(lines)
               /\ Contains(lines[k + 1], M_ACCOUNT_NAME))
              => /\ "total" \in DOMAIN data["billing_details"]
                 /\ data["billing_details"]["total"] = V_180_00

\* C9: a fault inside the try block does not leave the function: the step that
\* raises it keeps every section as it was, adds extraction_error holding the
\* fault's description and goes on to return the record unchanged; no other step
\* adds or removes extraction_error.
C9_FaultIsRecorded ==
    [][/\ Fault =>
             /\ pc' = "ret"
             /\ outcome' # "raised"
             /\ DOMAIN data' = Sections \cup {"extraction_error"}
             /\ \A s \in Sections : data'[s] = data[s]
             /\ data'["extraction_error"] = exc'
       /\ pc = "ret" => pc' = "done" /\ outcome' = "returned" /\ data' = data
       /\ ~Fault => (("extraction_error" \in DOMAIN data') <=> ("extraction_error" \in DOMAIN data))
      ]_vars

\* C9 witness: a fault struck after the company, customer and invoice scanners had
\* written their fields and before the payment scanner ran; the record returned
\* holds those fields and the fault's description.
C9_Witness ==
    /\ pc = "done"
    /\ outcome = "returned"
    /\ exc = E_FAULT
    /\ data["extraction_error"] = E_FAULT
    /\ {"company", "customer", "invoice"} \subseteq ran
    /\ "payment" \notin ran
    /\ DOMAIN data["company_info"] # {}
    /\ DOMAIN data["invoice_details"] # {}
    /\ DOMAIN data["payment_details"] = {}
    /\ LinesWith(M_ACCOUNT_NAME) # {}

\* C10: whatever the order in which the six scanners run over the line list, the
\* record returned is the one the order of the code produces.
C10_OrderIndependent == pc = "done" => data = extract_structured_data(content)

\* C10 witness: the payment scanner ran first and the company scanner did not, and
\* the record returned has fields in every section.
C10_Witness ==
    /\ pc = "done"
    /\ first = "payment"
    /\ ran = Scanners
    /\ \A s \in DictSections : DOMAIN data[s] # {}
    /\ data["meter_readings"] # <<>>

\* the least and the greatest element of a non-empty set of indices
MinOf(S) == CHOOSE k \in S : \A j \in S : k <= j

MaxOf(S) == CHOOSE k \in S : \A j \in S : j <= k

\* the marker lines of marker m that have a line after them
Followed(m) == {k \in LinesWith(m) : k < Len(lines)}

\* the fields of the invoice scan and their markers
InvoiceFields ==
    {[section |-> "invoice_details", marker |-> M_INVOICE_NUMBER_C, key |-> "number"],
     [section |-> "invoice_details", marker |-> M_INVOICE_DATE_C, key |-> "date"],
     [section |-> "invoice_details", marker |-> M_PAYMENT_DUE_C, key |-> "due_date"]}

\* the fields of the payment scan and their markers
PaymentFields ==
    {[section |-> "payment_details", marker |-> M_ACCOUNT_NAME, key |-> "account_name"],
     [section |-> "payment_details", marker |-> M_BANK_SORT_CODE, key |-> "sort_code"],
     [section |-> "payment_details", marker |-> M_ACCOUNT_NUMBER, key |-> "account_number"]}

\* C11 (as claimed): the three invoice markers are checked independently on each
\* line: when a line with a line after it holds two or three of them, each of their
\* fields is set to that next line (and keeps it unless a later marker line of the
\* same field overwrites it).
C11_MarkersIndependent ==
    Extracted =>
        \A k \in 1..(Len(lines) - 1) : \A f \in InvoiceFields : \A g \in InvoiceFields \ {f} :
            (/\ Contains(lines[k], f.marker)
             /\ Contains(lines[k], g.marker)
             /\ \A j \in Followed(f.marker) : j <= k)
            => /\ f.key \in DOMAIN data[f.section]
               /\ data[f.section][f.key] = lines[k + 1]

\* C12 (as claimed): for each next-line field of the invoice and payment scans the
\* value recorded is the line after the last marker line that has a line after it,
\* and the field is absent when no marker line has one.
C12_LastMatchWins ==
    Extracted =>
        \A f \in InvoiceFields \cup PaymentFields :
            IF Followed(f.marker) = {}
            THEN f.key \notin DOMAIN data[f.section]
            ELSE /\ f.key \in DOMAIN data[f.section]
                 /\ data[f.section][f.key] = lines[MaxOf(Followed(f.marker)) + 1]

\* C13: when a line contains "VAT No.", the address is the space-joined last four
\* lines before the first such line (all of them when fewer precede it), and no
\* address is recorded when that line is the first line.
C13_CompanyAddress ==
    (Extracted /\ LinesWith(M_VAT_NO) # {}) =>
        LET k == MinOf(LinesWith(M_VAT_NO))
            from == IF k > 5 THEN k - 4 ELSE 1
        IN IF k = 1
           THEN "address" \notin DOMAIN data["company_info"]
           ELSE /\ "address" \in DOMAIN data["company_info"]
                /\ data["company_info"]["address"] = Join(SubSeq(lines, from, k - 1), SP)

\* C13 witness: more than four lines precede the first VAT line, so the first of
\* them are left out of the address the record returned holds.
C13_Witness ==
    /\ Extracted
    /\ LinesWith(M_VAT_NO) # {}
    /\ MinOf(LinesWith(M_VAT_NO)) > 5
    /\ "address" \in DOMAIN data["company_info"]
    /\ data["company_info"]["address"] # Join(SubSeq(lines, 1, MinOf(LinesWith(M_VAT_NO)) - 1), SP)

\* a line that ends the customer address
StartsSentinel(l) ==
    StartsWith(l, M_BILL_PAYER) \/ StartsWith(l, M_INVOICE_NUMBER) \/ StartsWith(l, M_METER_SERIALS)

\* C14: the customer address is the space-joined lines after the first line holding
\* "Address Where Meter Installed:" up to and excluding the first later line that
\* starts with a sentinel prefix, or up to the end; a later marker line does not
\* start the address again; no address without the marker or without such lines.
C14_CustomerAddress ==
    Extracted =>
        IF LinesWith(M_ADDRESS_WHERE) = {}
        THEN "address" \notin DOMAIN data["customer_info"]
        ELSE LET k == MinOf(LinesWith(M_ADDRESS_WHERE))
                 stops == {j \in (k + 1)..Len(lines) : StartsSentinel(lines[j])}
                 last == IF stops = {} THEN Len(lines) ELSE MinOf(stops) - 1
             IN IF last <= k
                THEN "address" \notin DOMAIN data["customer_info"]
                ELSE /\ "address" \in DOMAIN data["customer_info"]
                     /\ data["customer_info"]["address"] = Join(SubSeq(lines, k + 1, last), SP)

\* C14 witness: the marker occurs twice, the second time before any sentinel line,
\* a sentinel line follows, and an address was recorded.
C14_Witness ==
    /\ Extracted
    /\ Cardinality(LinesWith(M_ADDRESS_WHERE)) = 2
    /\ \E j \in 1..Len(lines) :
          /\ StartsSentinel(lines[j])
          /\ j > MaxOf(LinesWith(M_ADDRESS_WHERE))
          /\ \A h \in 1..(j - 1) : ~StartsSentinel(lines[h])
    /\ "address" \in DOMAIN data["customer_info"]

\* the end value of a block is a value and a date on one line
Bleeds(l) == (\E month \in Months : Contains(l, month)) /\ " " \in Range(l)

\* C15: for every recorded block, when line i+4 holds a month abbreviation and a
\* space, the end reading's value is the text before its first space and the date
\* the text after it; otherwise they are lines i+4 and i+5.  Serial number, type
\* and start reading are the block's lines either way.
C15_DateBleed ==
    Extracted =>
        /\ Len(data["meter_readings"]) = Cardinality(MeterAnchors)
        /\ \A n \in 1..Len(data["meter_readings"]) :
              LET k == MeterAnchor(n)
                  r == data["meter_readings"][n]
                  l == lines[k + 4]
              IN /\ r.serial_number = lines[k]
                 /\ r.type = Lower(lines[k + 1])
                 /\ r.start_reading = [value |-> lines[k + 2], date |-> lines[k + 3]]
                 /\ IF Bleeds(l)
                    THEN \E p \in 1..Len(l) :
                            /\ l[p] = " "
                            /\ \A q \in 1..(p - 1) : l[q] # " "
                            /\ r.end_reading = [value |-> SubSeq(l, 1, p - 1),
                                                date |-> SubSeq(l, p + 1, Len(l))]
                    ELSE r.end_reading = [value |-> l, date |-> lines[k + 5]]

\* C15 witness: a recorded block whose line i+4 is a value and a date with spaces
\* of its own; the date recorded is not line i+5.
C15_Witness ==
    /\ Extracted
    /\ \E n \in 1..Len(data["meter_readings"]) :
          LET r == data["meter_readings"][n]
          IN /\ " " \in Range(r.end_reading.date)
             /\ \E k \in MeterAnchors :
                   /\ r.serial_number = lines[k]
                   /\ Bleeds(lines[k + 4])
                   /\ r.end_reading.date # lines[k + 5]

\* the digit-gated fields of the billing scan: marker, local and key
GatedFields ==
    {[marker |-> M_BILLING_PERIOD, local |-> "billing_period", key |-> "period"],
     [marker |-> M_COST_PER_KWH, local |-> "rate", key |-> "rate"],
     [marker |-> M_TOTAL_CONSUMPTION, local |-> "consumption", key |-> "consumption"]}

\* the lines the billing loop has passed
BillingPassed ==
    IF pc = "billing_loop" THEN i - 1 ELSE IF "billing" \in ran THEN Len(lines) ELSE 0

\* the lines passed that hold marker m alone of the gated markers and are followed
\* by a line with a digit
Captures(m) ==
    {k \in 1..(IF BillingPassed < Len(lines) THEN BillingPassed ELSE Len(lines) - 1) :
        /\ Contains(lines[k], m)
        /\ AnyDigit(lines[k + 1])
        /\ \A g \in GatedFields : g.marker # m => ~Contains(lines[k], g.marker)}

\* C16: at every step of the billing scan and after it (no fault having cut it
\* short), a gated value is held only if it is the line after a line with its marker
\* and contains a digit; a value captured is still held however many marker lines
\* without a digit after them follow; and the record gets the field exactly when a
\* value is held.
C16_DigitGate ==
    \A f \in GatedFields : exc = None =>
        /\ billing[f.local] # None =>
              \E k \in Followed(f.marker) :
                  /\ k <= BillingPassed
                  /\ AnyDigit(lines[k + 1])
                  /\ billing[f.local] = lines[k + 1]
        /\ billing[f.local] = None => Captures(f.marker) = {}
        /\ (pc = "done" /\ NoFault) =>
              IF billing[f.local] = None
              THEN f.key \notin DOMAIN data["billing_details"]
              ELSE /\ f.key \in DOMAIN data["billing_details"]
                   /\ data["billing_details"][f.key] = billing[f.local]

\* C16 witness: "Total Consumption" was followed by a line with a digit and later by
\* a line without one; the value of the first is in the record.
C16_Witness ==
    /\ Extracted
    /\ \E k \in Captures(M_TOTAL_CONSUMPTION) : \E j \in Followed(M_TOTAL_CONSUMPTION) :
          /\ k < j
          /\ ~AnyDigit(lines[j + 1])
          /\ \A h \in Followed(M_TOTAL_CONSUMPTION) : h <= j
          /\ data["billing_details"]["consumption"] = lines[k + 1]

\* C17 (as claimed): whenever a line with a line after it holds "Net Cost"
\* (or "Total Amount Due"), whatever other billing markers it holds, net_cost (or
\* total) is that next line, the last such line winning.
C17_Unconditional ==
    Extracted =>
        \A f \in {[marker |-> M_NET_COST, key |-> "net_cost"],
                  [marker |-> M_TOTAL_AMOUNT_DUE, key |-> "total"]} :
            Followed(f.marker) # {} =>
                /\ f.key \in DOMAIN data["billing_details"]
                /\ data["billing_details"][f.key] = lines[MaxOf(Followed(f.marker)) + 1]

\* C18 (as claimed): whenever a line holds "VAT @", also the last line, vat is the
\* text between "VAT @" and the first "%" of the last such line, trimmed, with "%"
\* appended.
C18_VatPercentage ==
    (Extracted /\ LinesWith(M_VAT_AT) # {}) =>
            LET l == lines[MaxOf(LinesWith(M_VAT_AT))]
            IN /\ "vat" \in DOMAIN data["billing_details"]
               /\ data["billing_details"]["vat"]
                     = Strip(BeforeFirst(AfterFirst(l, M_VAT_AT), PERCENT)) \o PERCENT

(***************************************************************************)
(* Properties of process_pdf                                               *)
(***************************************************************************)

\* C8 (as claimed): a request without a file_name parameter is answered with status
\* 400 and the body "Please provide file_name parameter", whatever variables are
\* set, and nothing is downloaded, analysed, uploaded or posted to a webhook.
C8_MissingFileName ==
    (ppc = "done" /\ file_name = None) =>
        /\ response.status_code = 400
        /\ response.body = "Please provide file_name parameter"
        /\ ~downloaded /\ ~analyzed /\ ~uploaded
        /\ posts = <<>>

\* C21 (as claimed): when process_pdf has returned, on whatever path, the temporary
\* PDF file it created no longer exists.
C21_TempFileDeleted == ppc = "done" => ~temp_exists

(***************************************************************************)
(* Properties of main of PdfOcrFunction                                    *)
(***************************************************************************)

\* C19: a webhook post is made only once the result JSON has been uploaded; a run
\* with a file_name whose download, analysis or upload fails ends with a 500
\* response and no post; and a run that uploaded ends with the success response
\* whether or not its posts went through.
C19_NotifyAfterUpload ==
    /\ posts # <<>> => uploaded
    /\ (mpc = "done" /\ Truthy(file_name) /\ ~uploaded) =>
          response.status_code = 500 /\ posts = <<>>
    /\ (mpc = "done" /\ uploaded) => response = MainSuccess

\* C19 witness: a run uploaded the result, posted to both webhooks, both posts
\* failed, and the response is the success response.
C19_Witness ==
    /\ mpc = "done"
    /\ uploaded
    /\ Len(posts) = 2
    /\ \A n \in 1..Len(posts) : ~posts[n].ok
    /\ response.status_code = 200

\* what holds of the polling loop in every state
PollingBounded ==
    /\ attempt \in 0..MaxAttempts
    /\ mpc = "poll" => status \in PendingStatuses \cup {"none"}
    /\ (mpc \in {"upload", "notify"} \/ uploaded \/ response.status_code = 200) =>
          status = "succeeded"
    /\ (mpc = "done" /\ status = "failed") =>
          response = HttpResponse("Basic test error: Form Recognizer failed", 500)
    /\ (mpc = "done" /\ status \in PendingStatuses) =>
          /\ attempt = MaxAttempts
          /\ response = HttpResponse("Basic test error: Form Recognizer timeout", 500)

\* C20: the polling loop makes at most 30 status requests and always comes to an
\* end: it is left at the first "succeeded" response, the only way on to the upload
\* and the success response; a "failed" response ends the run with a 500 response;
\* and 30 responses of any other status end it with the 500 response of the
\* "Form Recognizer timeout" error.
C20_PollingTerminates == []PollingBounded /\ ((mpc = "poll") ~> (mpc = "done"))

\* C20 witness: 30 status requests were answered "running" or "notStarted" and the
\* run ended with the timeout response.
C20_Witness ==
    /\ mpc = "done"
    /\ attempt = MaxAttempts
    /\ status \in PendingStatuses
    /\ response.status_code = 500

====
